---- MODULE Spec2Model ----
(***************************************************************************)
(* UserHandle cog (src/user_handle/user_handle.py): a per-member           *)
(* display-name ("sync") role plus tracked custom handle roles, kept in    *)
(* step with the guild by commands, the member-join listener and a         *)
(* periodic sweep.                                                         *)
(*                                                                         *)
(* Conventions.  A text (role name, handle, nickname) is a sequence of     *)
(* one-character strings, so that strip(), lower(), split() and the        *)
(* f-string "{base} ({i})" are computed character by character.  A Python  *)
(* Optional is a set with at most one element: None is {} and a value v    *)
(* is {v}.  A stored record is a function from a subset of the five keys   *)
(* to such optionals, so that info.get(k) is None both for a missing key   *)
(* and for a key stored as null.                                           *)
(***************************************************************************)
EXTENDS Integers, Sequences, FiniteSets, TLC

VARIABLES
    roles,        \* guild.roles: role id -> role name, for the live roles
    created,      \* ids of the roles returned by the cog's own create_role calls
    held,         \* member id -> set of role ids the member has
    nick,         \* member id -> Optional nickname
    present,      \* ids of the members currently in the guild
    store,        \* config.guild(guild).role_assignments: member id -> record
    blacklist,    \* config.guild(guild).role_blacklist: sequence of texts
    storeLock,    \* holder of the role_assignments context-manager lock
    lastSyncError,\* self._last_sync_error
    procs,        \* slot -> the command / listener invocation running in it
    sweep,        \* the sync_role_names task: lock, snapshot, position
    done,         \* Optional summary of the invocation that finished last
    budget,       \* invocations, guild events and remote failures still allowed
    fargs,        \* input of the pure function under check
    fret,         \* Optional output of the pure function under check
    log_dm_user_id,  \* config.guild(guild).log_dm_user_id
    log_channel_id,  \* config.guild(guild).log_channel_id
    admins        \* admin id -> the logdm / logchannel invocation of that admin

vars == <<roles, created, held, nick, present, store, blacklist, storeLock,
          lastSyncError, procs, sweep, done, budget, fargs, fret,
          log_dm_user_id, log_channel_id, admins>>

engineVars == <<roles, created, held, nick, present, store, blacklist,
                storeLock, lastSyncError, procs, sweep, done, budget>>

logVars == <<log_dm_user_id, log_channel_id, admins>>

None == {}

Some(v) == {v}

The(o) == CHOOSE v \in o : TRUE

-----------------------------------------------------------------------------
(* Texts                                                                   *)

Whitespace == {" "}

\* str.lower() on the letters the model uses
LowerChar(c) ==
    CASE c = "A" -> "a"
      [] c = "B" -> "b"
      [] c = "X" -> "x"
      [] OTHER -> c

Lower(s) == [i \in 1..Len(s) |-> LowerChar(s[i])]

RECURSIVE LStrip(_)
LStrip(s) ==
    IF s # <<>> /\ Head(s) \in Whitespace THEN LStrip(Tail(s)) ELSE s

RECURSIVE RStrip(_)
RStrip(s) ==
    IF s # <<>> /\ s[Len(s)] \in Whitespace
    THEN RStrip(SubSeq(s, 1, Len(s) - 1))
    ELSE s

\* str.strip()
Strip(s) == RStrip(LStrip(s))

\* positions at which sep occurs in s
Occurrences(s, sep) ==
    {i \in 1..(Len(s) - Len(sep) + 1) : SubSeq(s, i, i + Len(sep) - 1) = sep}

\* sep in s
Contains(s, sep) == Occurrences(s, sep) # {}

\* s.split(sep)[0]
SplitFirst(s, sep) ==
    IF Contains(s, sep)
    THEN LET i == CHOOSE j \in Occurrences(s, sep) :
                      \A k \in Occurrences(s, sep) : j <= k
         IN  SubSeq(s, 1, i - 1)
    ELSE s

DigitChar == <<"0", "1", "2", "3", "4", "5", "6", "7", "8", "9">>

\* str(i) for i >= 0
RECURSIVE Digits(_)
Digits(i) ==
    IF i < 10
    THEN <<DigitChar[i + 1]>>
    ELSE Digits(i \div 10) \o <<DigitChar[(i % 10) + 1]>>

\* f"{base_name} ({i})"
Suffixed(base_name, i) == base_name \o <<" ", "(">> \o Digits(i) \o <<")">>

\* x or y, for texts
OrText(x, y) == IF x # <<>> THEN x ELSE y

\* x or y, for an Optional text x
OrOptText(x, y) == IF x # None /\ The(x) # <<>> THEN The(x) ELSE y

-----------------------------------------------------------------------------
(* _unique_role_name                                                       *)

\* i = 2; while f"{base_name} ({i})" in existing_names: i += 1
RECURSIVE ProbeSuffix(_, _, _)
ProbeSuffix(base_name, working, i) ==
    IF Suffixed(base_name, i) \in working
    THEN ProbeSuffix(base_name, working, i + 1)
    ELSE i

\* The mutated namer: exclude_role is ignored.
unique_role_name_noexclude(base_name, existing_names, exclude_role) ==
    [name |-> IF base_name \notin existing_names
              THEN base_name
              ELSE Suffixed(base_name, ProbeSuffix(base_name, existing_names, 2)),
     existing_names |-> existing_names]

\* exclude_role is the Optional name of the excluded role.  The result holds
\* the returned name and the caller's set as it is after the call.
unique_role_name(base_name, existing_names, exclude_role) ==
    LET working == IF exclude_role # None /\ The(exclude_role) \in existing_names
                   THEN existing_names \ {The(exclude_role)}
                   ELSE existing_names
    IN  [name |-> IF base_name \notin working
                  THEN base_name
                  ELSE Suffixed(base_name, ProbeSuffix(base_name, working, 2)),
         existing_names |-> existing_names]

-----------------------------------------------------------------------------
(* _normalize_info                                                         *)

RecordKeys == {"role_id", "sync_role_id", "custom_role_id", "custom_name",
               "custom_roles"}

\* info.get(k)
Get(info, k) == IF k \in DOMAIN info THEN info[k] ELSE None

\* the record the cog writes: {"sync_role_id": ..., "custom_roles": [...]}
Current(sync_role_id, custom_roles) ==
    [k \in {"sync_role_id", "custom_roles"} |->
        IF k = "sync_role_id" THEN sync_role_id ELSE Some(custom_roles)]

\* info.get("custom_roles") or []
CustomRolesOf(info) ==
    IF Get(info, "custom_roles") = None THEN <<>> ELSE The(Get(info, "custom_roles"))

\* The mutated normalizer: the result is the stored record updated with the
\* two current keys, so the legacy keys stay in it.
normalize_info_keep(info) ==
    LET custom0  == CustomRolesOf(info)
        old_id   == Get(info, "custom_role_id")
        old_name == Get(info, "custom_name")
        custom1  == IF old_id # None
                       /\ ~ \E i \in 1..Len(custom0) : custom0[i].role_id = old_id
                    THEN Append(custom0,
                                [role_id |-> old_id,
                                 name |-> OrOptText(old_name, <<"c","u","s","t","o","m">>)])
                    ELSE custom0
        sync0    == Get(info, "sync_role_id")
        legacy   == Get(info, "role_id")
        migrate  == legacy # None /\ sync0 = None /\ custom1 = <<>>
        named    == old_name # None /\ The(old_name) # <<>>
    IN  [k \in DOMAIN info \cup {"sync_role_id", "custom_roles"} |->
            IF k = "sync_role_id"
            THEN (IF migrate /\ ~named THEN legacy ELSE sync0)
            ELSE IF k = "custom_roles"
            THEN Some(IF migrate /\ named
                      THEN <<[role_id |-> legacy, name |-> The(old_name)]>>
                      ELSE custom1)
            ELSE info[k]]

\* The mutated normalizer: a legacy role_id always becomes the sync role,
\* whether or not a custom_name is stored with it.
normalize_info_legacysync(info) ==
    LET custom0  == CustomRolesOf(info)
        old_id   == Get(info, "custom_role_id")
        old_name == Get(info, "custom_name")
        custom1  == IF old_id # None
                       /\ ~ \E i \in 1..Len(custom0) : custom0[i].role_id = old_id
                    THEN Append(custom0,
                                [role_id |-> old_id,
                                 name |-> OrOptText(old_name, <<"c","u","s","t","o","m">>)])
                    ELSE custom0
        sync0    == Get(info, "sync_role_id")
        legacy   == Get(info, "role_id")
        migrate  == legacy # None /\ sync0 = None /\ custom1 = <<>>
    IN  Current(IF migrate THEN legacy ELSE sync0, custom1)

normalize_info(info) ==
    LET custom0  == CustomRolesOf(info)
        old_id   == Get(info, "custom_role_id")
        old_name == Get(info, "custom_name")
        custom1  == IF old_id # None
                       /\ ~ \E i \in 1..Len(custom0) : custom0[i].role_id = old_id
                    THEN Append(custom0,
                                [role_id |-> old_id,
                                 name |-> OrOptText(old_name, <<"c","u","s","t","o","m">>)])
                    ELSE custom0
        sync0    == Get(info, "sync_role_id")
        legacy   == Get(info, "role_id")
        migrate  == legacy # None /\ sync0 = None /\ custom1 = <<>>
        named    == old_name # None /\ The(old_name) # <<>>
    IN  Current(IF migrate /\ ~named THEN legacy ELSE sync0,
                IF migrate /\ named
                THEN <<[role_id |-> legacy, name |-> The(old_name)]>>
                ELSE custom1)

\* info.get("sync_role_id") of a normalized record
SyncId(n) == n["sync_role_id"]

\* info.get("custom_roles") of a normalized record
Customs(n) == The(n["custom_roles"])

-----------------------------------------------------------------------------
(* The guild, its members and the cog's settings                           *)

Members == {1, 2, 3}

\* member.bot
Bots == {3}

\* member.name
UserName(m) ==
    CASE m = 1 -> <<"a", "l">>
      [] m = 2 -> <<"b", "o">>
      [] OTHER -> <<"b", "t">>

\* str(member.id)
Key(m) == Digits(m)

\* int(user_id_str)
RECURSIVE ParseInt(_)
ParseInt(k) ==
    IF k = <<>>
    THEN 0
    ELSE 10 * ParseInt(SubSeq(k, 1, Len(k) - 1))
         + (CHOOSE d \in 0..9 : DigitChar[d + 1] = k[Len(k)])

\* _display_name(member), with member.display_name the nickname or the username
DisplayName(m) == OrText(OrOptText(nick[m], UserName(m)), UserName(m))

\* (_display_name(member) or member.name).strip() or member.name
DesiredName(m) == OrText(Strip(OrText(DisplayName(m), UserName(m))), UserName(m))

\* {r.name for r in guild.roles}
RoleNames(rs) == {rs[r] : r \in DOMAIN rs}

\* guild.get_role(role_id) if role_id else None
GetRole(rs, role_id) ==
    IF role_id # None /\ The(role_id) \in DOMAIN rs THEN role_id ELSE None

\* assignments.get(user_id_str) or {}
GetRec(st, k) == IF k \in DOMAIN st THEN st[k] ELSE <<>>

\* assignments[user_id_str] = rec
PutRec(st, k, rec) == [x \in DOMAIN st \cup {k} |-> IF x = k THEN rec ELSE st[x]]

\* assignments.pop(user_id_str, None)
PopRec(st, k) == [x \in DOMAIN st \ {k} |-> st[x]]

\* _is_role_name_blacklisted
IsRoleNameBlacklisted(bl, name) ==
    /\ Strip(name) # <<>>
    /\ \E i \in 1..Len(bl) : Lower(Strip(bl[i])) = Lower(Strip(name))

\* _is_handle_name_taken_by_another
IsHandleNameTakenByAnother(st, m, name) ==
    /\ Strip(name) # <<>>
    /\ \E k \in DOMAIN st :
          /\ k # Key(m)
          /\ LET cs == Customs(normalize_info(st[k]))
             IN  \E i \in 1..Len(cs) : Lower(Strip(cs[i].name)) = Lower(Strip(name))

\* ids of roles that exist without the cog having created them
ForeignRoles == {1}

Max(S) == CHOOSE x \in S : \A y \in S : y <= x

\* the id Discord gives the next created role
NewRoleId(w) == 1 + Max(ForeignRoles \cup w.created \cup DOMAIN w.roles)

-----------------------------------------------------------------------------
(* Invocations.  A step of an invocation is the completion of the call it  *)
(* awaits together with the code that runs until its next await.  The      *)
(* mutable state is passed through the steps as one record, the world.     *)

Slots == {1, 2}

World ==
    [roles |-> roles, created |-> created, held |-> held, store |-> store,
     storeLock |-> storeLock, lastSyncError |-> lastSyncError,
     procs |-> procs, sweep |-> sweep]

Becomes(w) ==
    /\ roles' = w.roles
    /\ created' = w.created
    /\ held' = w.held
    /\ store' = w.store
    /\ storeLock' = w.storeLock
    /\ lastSyncError' = w.lastSyncError
    /\ procs' = w.procs
    /\ sweep' = w.sweep

IdleProc ==
    [op |-> "idle", pc |-> "idle", m |-> 0, name |-> <<>>, rid |-> None,
     uq |-> <<>>, sync |-> None, customs |-> <<>>, idx |-> 0, queue |-> <<>>,
     count |-> 0, calls |-> <<>>, store0 |-> <<>>, held0 |-> <<>>, out |-> "",
     result |-> None]

IdleSweep ==
    [pc |-> "idle", data |-> <<>>, existing |-> {}, queue |-> <<>>,
     rid |-> None, uq |-> <<>>, visited |-> {}, failed |-> {}, renamed |-> {},
     updated |-> 0]

\* no command, listener or sweep is in flight
Quiet == sweep.pc = "idle" /\ \A p \in Slots : procs[p].pc = "idle"

SetProc(w, p, pr) == [w EXCEPT !.procs[p] = pr]

\* a remote call issued by invocation p, and whether it succeeded
Called(w, p, call, role, member, name, ok) ==
    [w EXCEPT !.procs[p].calls =
        Append(@, [call |-> call, role |-> role, member |-> member,
                   name |-> name, ok |-> ok])]

\* if self._last_sync_error is None: self._last_sync_error = str(e)
RememberError(w, p) ==
    IF w.lastSyncError = None THEN [w EXCEPT !.lastSyncError = Some(p)] ELSE w

\* the command or listener returns
Return(w, p, out, result) ==
    [w EXCEPT !.procs[p].pc = "ret", !.procs[p].out = out, !.procs[p].result = result]

\* await member.add_roles(role): the member gets the role unless the call
\* fails; it fails when the role is gone
AddRole(w, p, m, rid, ok) ==
    IF ok /\ rid \in DOMAIN w.roles
    THEN Called([w EXCEPT !.held[m] = @ \cup {rid}], p, "add", rid, m, <<>>, TRUE)
    ELSE Called(w, p, "add", rid, m, <<>>, FALSE)

-----------------------------------------------------------------------------
(* userhandle_set, _ensure_custom_role, _ensure_sync_role, on_member_join  *)

MaxNameLen == 100

\* _ensure_custom_role returned role to userhandle_set (lines 439-455)
CustomReturned(w, p, role) ==
    IF role = None
    THEN IF IsRoleNameBlacklisted(blacklist, w.procs[p].name)
         THEN Return(w, p, "rejected_blacklist", None)
         ELSE Return(w, p, "custom_failed", None)
    ELSE Return(w, p, "ok", role)

\* custom_roles.append(...) and the write-back of lines 348-352
PersistCustom(w, p) ==
    LET pr == w.procs[p]
        entry == normalize_info(GetRec(w.store, Key(pr.m)))
    IN  [w EXCEPT !.store = PutRec(@, Key(pr.m), Current(SyncId(entry), pr.customs)),
                  !.procs[p].pc = "ec_add"]

\* The mutated start of _ensure_custom_role: a guild role that already has
\* the requested name is taken over instead of a new one being created.
EnsureCustomBeginAdopts(w, p) ==
    LET pr == w.procs[p]
        m == pr.m
        custom_name == OrText(Strip(pr.name), UserName(m))
    IN  IF IsRoleNameBlacklisted(blacklist, custom_name)
        THEN CustomReturned(w, p, None)
        ELSE IF w.storeLock # None
        THEN [w EXCEPT !.procs[p].pc = "ec_begin"]
        ELSE
          LET custom_roles == Customs(normalize_info(GetRec(w.store, Key(m))))
              same == {r \in DOMAIN w.roles : w.roles[r] = custom_name}
              unique_name == unique_role_name(custom_name, RoleNames(w.roles), None).name
          IN  IF same # {}
              THEN LET r == CHOOSE x \in same : TRUE
                   IN  PersistCustom(
                           [w EXCEPT !.procs[p].rid = Some(r),
                                     !.procs[p].customs =
                                         Append(custom_roles,
                                                [role_id |-> Some(r), name |-> custom_name])],
                           p)
              ELSE [w EXCEPT !.procs[p].pc = "ec_create",
                             !.procs[p].uq = unique_name,
                             !.procs[p].customs = custom_roles]

\* _ensure_custom_role from its start to its first remote call (lines 309-342)
EnsureCustomBegin(w, p) ==
    LET pr == w.procs[p]
        m == pr.m
        custom_name == OrText(Strip(pr.name), UserName(m))
    IN  IF IsRoleNameBlacklisted(blacklist, custom_name)
        THEN CustomReturned(w, p, None)
        ELSE IF w.storeLock # None
        THEN [w EXCEPT !.procs[p].pc = "ec_begin"]
        ELSE
          LET custom_roles == Customs(normalize_info(GetRec(w.store, Key(m))))
              hits == {j \in 1..Len(custom_roles) :
                         /\ custom_roles[j].role_id # None
                         /\ custom_roles[j].name = custom_name}
          IN  IF hits # {}
              THEN LET c == custom_roles[CHOOSE j \in hits : \A k \in hits : j <= k]
                       role == GetRole(w.roles, c.role_id)
                   IN  IF role # None /\ The(role) \notin w.held[m]
                       THEN [w EXCEPT !.procs[p].pc = "ec_readd", !.procs[p].rid = role]
                       ELSE CustomReturned(w, p, role)
              ELSE LET unique_name ==
                           unique_role_name(custom_name, RoleNames(w.roles), None).name
                       base_name ==
                           IF Contains(unique_name, <<" ", "(">>)
                           THEN Strip(SplitFirst(unique_name, <<" ", "(">>))
                           ELSE unique_name
                   IN  IF IsRoleNameBlacklisted(blacklist, unique_name)
                       THEN CustomReturned(w, p, None)
                       ELSE IF IsRoleNameBlacklisted(blacklist, base_name)
                       THEN CustomReturned(w, p, None)
                       ELSE [w EXCEPT !.procs[p].pc = "ec_create",
                                      !.procs[p].uq = unique_name,
                                      !.procs[p].customs = custom_roles]

\* guild.create_role of line 339 completed (lines 343-355)
CustomCreated(w, p, ok) ==
    LET pr == w.procs[p]
        r == NewRoleId(w)
    IN  IF ~ok
        THEN CustomReturned(
                 RememberError(Called(w, p, "create_custom", 0, pr.m, pr.uq, FALSE), p), p, None)
        ELSE LET w1 == Called([w EXCEPT !.roles = PutRec(@, r, pr.uq),
                                        !.created = @ \cup {r},
                                        !.procs[p].rid = Some(r),
                                        !.procs[p].customs =
                                            Append(@, [role_id |-> Some(r), name |-> pr.uq])],
                              p, "create_custom", r, pr.m, pr.uq, TRUE)
             IN  IF w1.storeLock # None
                 THEN [w1 EXCEPT !.procs[p].pc = "ec_persist"]
                 ELSE PersistCustom(w1, p)

\* member.add_roles of line 323 or 355 completed
CustomAdded(w, p, ok) ==
    LET pr == w.procs[p]
        w1 == AddRole(w, p, pr.m, The(pr.rid), ok)
        w2 == IF ok /\ The(pr.rid) \in DOMAIN w.roles THEN w1 ELSE RememberError(w1, p)
    IN  CustomReturned(w2, p, pr.rid)

\* _ensure_sync_role returned role to its caller: on_member_join (line 687),
\* userhandle_set (lines 429-438) or userhandle_sync (lines 663-669)
SyncReturned(w, p, role) ==
    LET pr == w.procs[p]
    IN  CASE pr.op = "join" -> Return(w, p, "done", role)
          [] pr.op = "sync" ->
                [w EXCEPT !.procs[p].pc = "as_sleep",
                          !.procs[p].count = IF role # None THEN @ + 1 ELSE @,
                          !.procs[p].queue = Tail(@)]
          [] OTHER ->
                IF role = None
                THEN Return(w, p, "sync_failed", None)
                ELSE IF IsRoleNameBlacklisted(blacklist, pr.name)
                THEN Return(w, p, "rejected_blacklist", None)
                ELSE IF IsHandleNameTakenByAnother(w.store, pr.m, pr.name)
                THEN Return(w, p, "rejected_taken", None)
                ELSE EnsureCustomBegin([w EXCEPT !.procs[p].sync = role], p)

\* lines 296-303: add the role if the member lacks it
EnsureSyncAdd(w, p, role) ==
    IF The(role) \notin w.held[w.procs[p].m]
    THEN [w EXCEPT !.procs[p].pc = "es_add", !.procs[p].rid = role]
    ELSE SyncReturned(w, p, role)

\* The mutated start of _ensure_sync_role: a live sync role keeps the name
\* it has.
EnsureSyncBeginKeepsName(w, p) ==
    IF w.storeLock # None
    THEN [w EXCEPT !.procs[p].pc = "es_begin"]
    ELSE
      LET m == w.procs[p].m
          sync_role_id == SyncId(normalize_info(GetRec(w.store, Key(m))))
          name_to_use == DesiredName(m)
          existing_names == RoleNames(w.roles)
          role == GetRole(w.roles, sync_role_id)
      IN  IF role = None
          THEN [w EXCEPT !.procs[p].pc = "es_create",
                         !.procs[p].uq =
                             unique_role_name(name_to_use, existing_names, None).name]
          ELSE EnsureSyncAdd(w, p, role)

\* _ensure_sync_role from its start to its first remote call (lines 265-293)
EnsureSyncBegin(w, p) ==
    IF w.storeLock # None
    THEN [w EXCEPT !.procs[p].pc = "es_begin"]
    ELSE
      LET m == w.procs[p].m
          sync_role_id == SyncId(normalize_info(GetRec(w.store, Key(m))))
          name_to_use == DesiredName(m)
          existing_names == RoleNames(w.roles)
          role == GetRole(w.roles, sync_role_id)
      IN  IF role = None
          THEN [w EXCEPT !.procs[p].pc = "es_create",
                         !.procs[p].uq =
                             unique_role_name(name_to_use, existing_names, None).name]
          ELSE IF w.roles[The(role)] # name_to_use
          THEN [w EXCEPT !.procs[p].pc = "es_rename",
                         !.procs[p].rid = role,
                         !.procs[p].uq =
                             unique_role_name(name_to_use, existing_names,
                                              Some(w.roles[The(role)])).name]
          ELSE EnsureSyncAdd(w, p, role)

\* the write-back of lines 285-288
PersistSync(w, p) ==
    LET pr == w.procs[p]
        entry == normalize_info(GetRec(w.store, Key(pr.m)))
    IN  EnsureSyncAdd([w EXCEPT !.store = PutRec(@, Key(pr.m),
                                                 Current(pr.rid, Customs(entry)))],
                      p, pr.rid)

\* The mutated create step: a failed create_role still writes the record.
SyncCreatedPersistsOnFailure(w, p, ok) ==
    LET pr == w.procs[p]
        r == NewRoleId(w)
    IN  IF ~ok
        THEN LET entry == normalize_info(GetRec(w.store, Key(pr.m)))
                 w0 == [w EXCEPT !.store = PutRec(@, Key(pr.m),
                                                  Current(None, Customs(entry)))]
             IN  SyncReturned(
                     RememberError(Called(w0, p, "create_sync", 0, pr.m, pr.uq, FALSE), p),
                     p, None)
        ELSE LET w1 == Called([w EXCEPT !.roles = PutRec(@, r, pr.uq),
                                        !.created = @ \cup {r},
                                        !.procs[p].rid = Some(r)],
                              p, "create_sync", r, pr.m, pr.uq, TRUE)
             IN  IF w1.storeLock # None
                 THEN [w1 EXCEPT !.procs[p].pc = "es_persist"]
                 ELSE PersistSync(w1, p)

\* guild.create_role of line 275 completed (lines 279-288)
SyncCreated(w, p, ok) ==
    LET pr == w.procs[p]
        r == NewRoleId(w)
    IN  IF ~ok
        THEN SyncReturned(
                 RememberError(Called(w, p, "create_sync", 0, pr.m, pr.uq, FALSE), p), p, None)
        ELSE LET w1 == Called([w EXCEPT !.roles = PutRec(@, r, pr.uq),
                                        !.created = @ \cup {r},
                                        !.procs[p].rid = Some(r)],
                              p, "create_sync", r, pr.m, pr.uq, TRUE)
             IN  IF w1.storeLock # None
                 THEN [w1 EXCEPT !.procs[p].pc = "es_persist"]
                 ELSE PersistSync(w1, p)

\* The mutated rename step: a failed role.edit ends _ensure_sync_role with
\* no role.
SyncRenamedFatal(w, p, ok) ==
    LET pr == w.procs[p]
        rid == The(pr.rid)
        done_ok == ok /\ rid \in DOMAIN w.roles
        w1 == Called(IF done_ok THEN [w EXCEPT !.roles[rid] = pr.uq] ELSE w,
                     p, "rename", rid, pr.m, pr.uq, done_ok)
    IN  IF done_ok THEN EnsureSyncAdd(w1, p, pr.rid) ELSE SyncReturned(w1, p, None)

\* role.edit of line 293 completed: a failure is swallowed (lines 294-295)
SyncRenamed(w, p, ok) ==
    LET pr == w.procs[p]
        rid == The(pr.rid)
        done_ok == ok /\ rid \in DOMAIN w.roles
        w1 == Called(IF done_ok THEN [w EXCEPT !.roles[rid] = pr.uq] ELSE w,
                     p, "rename", rid, pr.m, pr.uq, done_ok)
    IN  EnsureSyncAdd(w1, p, pr.rid)

\* member.add_roles of line 298 completed (lines 299-303)
SyncAdded(w, p, ok) ==
    LET pr == w.procs[p]
        w1 == AddRole(w, p, pr.m, The(pr.rid), ok)
        w2 == IF ok /\ The(pr.rid) \in DOMAIN w.roles THEN w1 ELSE RememberError(w1, p)
    IN  SyncReturned(w2, p, pr.rid)

\* on_member_join (lines 683-687)
JoinBegin(w, p) ==
    IF w.procs[p].m \in Bots
    THEN Return(w, p, "bot", None)
    ELSE EnsureSyncBegin(w, p)

\* userhandle_set up to _ensure_sync_role (lines 421-428)
SetBegin(w, p) ==
    LET name == Strip(w.procs[p].name)
        w1 == [w EXCEPT !.procs[p].name = name]
    IN  IF name = <<>>
        THEN Return(w1, p, "rejected_empty", None)
        ELSE IF Len(name) > MaxNameLen
        THEN Return(w1, p, "rejected_long", None)
        ELSE EnsureSyncBegin(w1, p)

-----------------------------------------------------------------------------
(* userhandle_clear, userhandle_remove, userhandle_sync                    *)

\* The mutated commit of clear: the member's record is dropped whole.
ClearCommitDropsRecord(w, p) ==
    Return([w EXCEPT !.store = PopRec(@, Key(w.procs[p].m)), !.storeLock = None],
           p, "cleared", None)

\* lines 479-486: empty custom_roles, keep sync_role_id, prune an empty record
ClearCommit(w, p) ==
    LET k == Key(w.procs[p].m)
        entry == normalize_info(GetRec(w.store, k))
    IN  Return([w EXCEPT !.store = IF SyncId(entry) = None
                                   THEN PopRec(@, k)
                                   ELSE PutRec(@, k, Current(SyncId(entry), <<>>)),
                         !.storeLock = None],
               p, "cleared", None)

\* the loop of lines 468-478 from entry i up to the next remove_roles call
RECURSIVE ClearLoop(_, _, _)
ClearLoop(w, p, i) ==
    LET pr == w.procs[p]
    IN  IF i > Len(pr.customs)
        THEN ClearCommit(w, p)
        ELSE LET role == GetRole(w.roles, pr.customs[i].role_id)
             IN  IF role # None /\ The(role) \in w.held[pr.m]
                 THEN [w EXCEPT !.procs[p].pc = "cl_remove",
                                !.procs[p].idx = i,
                                !.procs[p].rid = role]
                 ELSE ClearLoop(w, p, i + 1)

\* userhandle_clear from its start (lines 460-467); the context manager of
\* line 461 is held until the commit
ClearBegin(w, p) ==
    IF w.storeLock # None
    THEN [w EXCEPT !.procs[p].pc = "cl_begin"]
    ELSE LET custom_roles == Customs(normalize_info(GetRec(w.store, Key(w.procs[p].m))))
         IN  IF custom_roles = <<>>
             THEN Return(w, p, "no_customs", None)
             ELSE ClearLoop([w EXCEPT !.storeLock = Some(p),
                                      !.procs[p].customs = custom_roles], p, 1)

\* ctx.author.remove_roles of line 475 completed; a failure is swallowed
ClearRemoved(w, p, ok) ==
    LET pr == w.procs[p]
        rid == The(pr.rid)
        done_ok == ok /\ rid \in DOMAIN w.roles
        w1 == Called(IF done_ok
                     THEN [w EXCEPT !.held[pr.m] = @ \ {rid}, !.procs[p].count = @ + 1]
                     ELSE w,
                     p, "remove", rid, pr.m, <<>>, done_ok)
    IN  ClearLoop(w1, p, pr.idx + 1)

\* The mutated commit of remove: every tracked entry is dropped, not only the
\* matched one.
RemoveCommitDropsAll(w, p) ==
    LET pr == w.procs[p]
        k == Key(pr.m)
        entry == normalize_info(GetRec(w.store, k))
    IN  Return([w EXCEPT !.store = IF SyncId(entry) = None
                                   THEN PopRec(@, k)
                                   ELSE PutRec(@, k, Current(SyncId(entry), <<>>)),
                         !.storeLock = None],
               p, "removed", None)

\* lines 530-537: drop the matched entry, keep sync_role_id, prune
RemoveCommit(w, p) ==
    LET pr == w.procs[p]
        k == Key(pr.m)
        new_list == SubSeq(pr.customs, 1, pr.idx - 1)
                    \o SubSeq(pr.customs, pr.idx + 1, Len(pr.customs))
        entry == normalize_info(GetRec(w.store, k))
    IN  Return([w EXCEPT !.store = IF new_list = <<>> /\ SyncId(entry) = None
                                   THEN PopRec(@, k)
                                   ELSE PutRec(@, k, Current(SyncId(entry), new_list)),
                         !.storeLock = None],
               p, "removed", None)

\* userhandle_remove from its start to its remote call (lines 498-526)
RemoveBegin(w, p) ==
    LET name == Strip(w.procs[p].name)
        m == w.procs[p].m
        w1 == [w EXCEPT !.procs[p].name = name]
    IN  IF name = <<>>
        THEN Return(w1, p, "rejected_empty", None)
        ELSE IF w.storeLock # None
        THEN [w EXCEPT !.procs[p].pc = "rm_begin"]
        ELSE
          LET custom_roles == Customs(normalize_info(GetRec(w.store, Key(m))))
              hits == {j \in 1..Len(custom_roles) : Strip(custom_roles[j].name) = name}
          IN  IF hits = {}
              THEN Return(w1, p, "not_tracked", None)
              ELSE LET match_idx == CHOOSE j \in hits : \A k \in hits : j <= k
                       role == GetRole(w.roles, custom_roles[match_idx].role_id)
                       w2 == [w1 EXCEPT !.storeLock = Some(p),
                                        !.procs[p].customs = custom_roles,
                                        !.procs[p].idx = match_idx,
                                        !.procs[p].rid = role]
                   IN  IF role # None /\ The(role) \in w.held[m]
                       THEN [w2 EXCEPT !.procs[p].pc = "rm_remove"]
                       ELSE RemoveCommit(w2, p)

\* ctx.author.remove_roles of line 526 completed; on a failure the command
\* returns inside the context manager, which writes nothing (lines 527-529)
RemoveRemoved(w, p, ok) ==
    LET pr == w.procs[p]
        rid == The(pr.rid)
        done_ok == ok /\ rid \in DOMAIN w.roles
    IN  IF done_ok
        THEN RemoveCommit(Called([w EXCEPT !.held[pr.m] = @ \ {rid}],
                                 p, "remove", rid, pr.m, <<>>, TRUE), p)
        ELSE Return([Called(w, p, "remove", rid, pr.m, <<>>, FALSE)
                        EXCEPT !.storeLock = None],
                    p, "remove_failed", None)

\* the members of a set, in ascending order
RECURSIVE Ascending(_)
Ascending(S) ==
    IF S = {}
    THEN <<>>
    ELSE LET x == CHOOSE y \in S : \A z \in S : y <= z
         IN  <<x>> \o Ascending(S \ {x})

\* userhandle_sync at its start: line 634, then the await of line 635
AdminSyncBegin(w, p) ==
    [w EXCEPT !.lastSyncError = None, !.procs[p].pc = "as_start"]

\* lines 670-679: the report, with the remembered error when nothing was made
AdminSyncReport(w, p) ==
    LET pr == w.procs[p]
    IN  IF pr.count = 0 /\ w.lastSyncError # None
        THEN Return([w EXCEPT !.lastSyncError = None], p, "none_created", w.lastSyncError)
        ELSE Return(w, p, "synced", None)

\* the loop of lines 660-669 at its next member
AdminSyncNext(w, p) ==
    IF w.procs[p].queue = <<>>
    THEN AdminSyncReport(w, p)
    ELSE EnsureSyncBegin([w EXCEPT !.procs[p].m = Head(w.procs[p].queue)], p)

\* The mutated member list of userhandle_sync: bots are not left out.
AdminSyncMembersWithBots(w, p) ==
    LET members_list == Ascending(present)
    IN  IF members_list = <<>>
        THEN Return(w, p, "no_members", None)
        ELSE AdminSyncNext([w EXCEPT !.procs[p].queue = members_list], p)

\* lines 641-657: the member list, from the cache or the REST fallback, bots left out
AdminSyncMembers(w, p) ==
    LET members_list == Ascending(present \ Bots)
    IN  IF members_list = <<>>
        THEN Return(w, p, "no_members", None)
        ELSE AdminSyncNext([w EXCEPT !.procs[p].queue = members_list], p)

-----------------------------------------------------------------------------
(* sync_role_names and _sync_guild_roles: the periodic sweep               *)

\* The mutated repair of a dangling sync role: the record is written back
\* even when nothing is left in it.
SweepClearSyncKeepsRecord(w, k) ==
    LET a == normalize_info(GetRec(w.store, k))
    IN  [w EXCEPT !.store = PutRec(@, k, Current(None, Customs(a)))]

\* The mutated repair of a dangling sync role: the sweep makes a new role for
\* the member instead of clearing the id.
SweepClearSyncRecreates(w, k) ==
    LET a == normalize_info(GetRec(w.store, k))
        r == NewRoleId(w)
    IN  [w EXCEPT !.roles = PutRec(@, r, DesiredName(ParseInt(k))),
                  !.created = @ \cup {r},
                  !.store = PutRec(@, k, Current(Some(r), Customs(a)))]

\* lines 202-208: clear the sync role of a record whose role is gone
SweepClearSync(w, k) ==
    LET a == normalize_info(GetRec(w.store, k))
    IN  [w EXCEPT !.store = IF Customs(a) # <<>>
                            THEN PutRec(@, k, Current(None, Customs(a)))
                            ELSE PopRec(@, k)]

\* the loop of lines 194-240 from the head of the queue up to its next await
RECURSIVE SweepLoop(_)
SweepLoop(w) ==
    LET sw == w.sweep
    IN  IF sw.queue = <<>>
        THEN [w EXCEPT !.sweep.pc = "ret"]
        ELSE
          LET k == Head(sw.queue)
              sync_role_id == SyncId(normalize_info(sw.data[k]))
              role == GetRole(w.roles, sync_role_id)
              m == ParseInt(k)
              next == [w EXCEPT !.sweep.queue = Tail(@),
                                !.sweep.visited = @ \cup {k}]
          IN  IF sync_role_id = None
              THEN SweepLoop(next)
              ELSE IF role = None
              THEN IF w.storeLock # None
                   THEN [w EXCEPT !.sweep.pc = "sw_txn"]
                   ELSE SweepLoop(SweepClearSync(next, k))
              ELSE IF m \notin present
              THEN SweepLoop(next)
              ELSE IF w.roles[The(role)] = DesiredName(m)
              THEN IF The(role) \notin w.held[m]
                   THEN [w EXCEPT !.sweep.pc = "sw_readd", !.sweep.rid = role]
                   ELSE SweepLoop(next)
              ELSE [w EXCEPT !.sweep.pc = "sw_rename",
                             !.sweep.rid = role,
                             !.sweep.uq =
                                 unique_role_name(DesiredName(m), sw.existing,
                                                  Some(w.roles[The(role)])).name]

\* the lock was free again at line 202 (lines 202-209)
SweepTxn(w) ==
    LET k == Head(w.sweep.queue)
    IN  SweepLoop(SweepClearSync([w EXCEPT !.sweep.queue = Tail(@),
                                           !.sweep.visited = @ \cup {k}], k))

\* list(data.items()): the keys in the order of the member ids
KeysInOrder(st) ==
    LET ms == Ascending({ParseInt(k) : k \in DOMAIN st})
    IN  [i \in 1..Len(ms) |-> Key(ms[i])]

\* _sync_guild_roles at its start (lines 184-188): the snapshot of the records
SweepBegin(w) ==
    IF DOMAIN w.store = {}
    THEN [w EXCEPT !.sweep.pc = "ret"]
    ELSE [w EXCEPT !.sweep.pc = "sw_chunk", !.sweep.data = w.store]

\* guild.chunk() returned (lines 191-194): the snapshot of the role names
SweepChunked(w) ==
    SweepLoop([w EXCEPT !.sweep.existing = RoleNames(w.roles),
                        !.sweep.queue = KeysInOrder(w.sweep.data)])

\* lines 233-240 after the rename: re-add the role, then sleep
SweepAfterRename(w) ==
    LET m == ParseInt(Head(w.sweep.queue))
    IN  IF The(w.sweep.rid) \notin w.held[m]
        THEN [w EXCEPT !.sweep.pc = "sw_add"]
        ELSE [w EXCEPT !.sweep.pc = "sw_sleep"]

\* The mutated sweep: a failed rename ends the pass.
SweepRenamedAborts(w, ok, fresh) ==
    LET sw == w.sweep
        rid == The(sw.rid)
    IN  IF ok /\ rid \in DOMAIN w.roles
        THEN SweepAfterRename(
                 [w EXCEPT !.roles[rid] = sw.uq,
                           !.sweep.existing = (@ \ {IF fresh THEN sw.uq ELSE w.roles[rid]})
                                              \cup {sw.uq},
                           !.sweep.updated = @ + 1,
                           !.sweep.renamed = @ \cup {[key |-> Head(sw.queue),
                                                       name |-> sw.uq]}])
        ELSE [w EXCEPT !.sweep.failed = @ \cup {Head(sw.queue)}, !.sweep.pc = "ret"]

\* role.edit of line 226 completed (lines 227-232).  role.name of line 227 is
\* read after the await: the cached role carries the old name, or the new
\* one when the gateway update has been handled first (fresh).
SweepRenamed(w, ok, fresh) ==
    LET sw == w.sweep
        rid == The(sw.rid)
    IN  IF ok /\ rid \in DOMAIN w.roles
        THEN SweepAfterRename(
                 [w EXCEPT !.roles[rid] = sw.uq,
                           !.sweep.existing = (@ \ {IF fresh THEN sw.uq ELSE w.roles[rid]})
                                              \cup {sw.uq},
                           !.sweep.updated = @ + 1,
                           !.sweep.renamed = @ \cup {[key |-> Head(sw.queue),
                                                       name |-> sw.uq]}])
        ELSE SweepAfterRename([w EXCEPT !.sweep.failed = @ \cup {Head(sw.queue)}])

\* member.add_roles of a sweep completed: after a rename (line 235) the loop
\* sleeps, after the re-add of line 218 it continues at once
SweepAdded(w, ok) ==
    LET sw == w.sweep
        rid == The(sw.rid)
        m == ParseInt(Head(sw.queue))
        readd == sw.pc = "sw_readd"
        w1 == IF ok /\ rid \in DOMAIN w.roles
              THEN [w EXCEPT !.held[m] = @ \cup {rid},
                             !.sweep.updated = IF readd THEN @ + 1 ELSE @]
              ELSE [w EXCEPT !.sweep.failed = @ \cup {Head(sw.queue)}]
        next == [w1 EXCEPT !.sweep.queue = Tail(@),
                           !.sweep.visited = @ \cup {Head(sw.queue)}]
    IN  IF readd THEN SweepLoop(next) ELSE [w1 EXCEPT !.sweep.pc = "sw_sleep"]

\* asyncio.sleep(0.2) of line 240 returned: the next record
SweepSlept(w) ==
    SweepLoop([w EXCEPT !.sweep.queue = Tail(@),
                        !.sweep.visited = @ \cup {Head(w.sweep.queue)}])

-----------------------------------------------------------------------------
(* userhandle_logdm and userhandle_logchannel: where the admin log goes.   *)
(* Each config .set(...) is awaited; its write lands when the await        *)
(* completes, and another admin's command can run in between.              *)

\* the admins who send the commands (ctx.author.id)
Admins == {1, 2}

\* the text channels an admin can name
Channels == {7, 8}

IdleAdmin == [pc |-> "idle", channel |-> None]

\* the registered defaults of lines 88-89
LogDefaults ==
    /\ log_dm_user_id = None
    /\ log_channel_id = None
    /\ admins = [a \in Admins |-> IdleAdmin]

LogSteps(a, pc) ==
    /\ admins[a].pc = pc
    /\ UNCHANGED <<engineVars, fargs, fret>>

\* "userhandle logdm" by admin a: the toggle of lines 594-598
LogDmCommand(a) ==
    /\ LogSteps(a, "idle")
    /\ admins' = [admins EXCEPT ![a].pc =
                     IF log_dm_user_id = Some(a) THEN "dm_off" ELSE "dm_clear"]
    /\ UNCHANGED <<log_dm_user_id, log_channel_id>>

\* log_dm_user_id.set(None) of line 596 completed
LogDmOffDone(a) ==
    /\ LogSteps(a, "dm_off")
    /\ log_dm_user_id' = None
    /\ admins' = [admins EXCEPT ![a] = IdleAdmin]
    /\ UNCHANGED log_channel_id

\* log_channel_id.set(None) of line 599 completed
LogDmClearDone(a) ==
    /\ LogSteps(a, "dm_clear")
    /\ log_channel_id' = None
    /\ admins' = [admins EXCEPT ![a].pc = "dm_set"]
    /\ UNCHANGED log_dm_user_id

\* log_dm_user_id.set(ctx.author.id) of line 600 completed
LogDmSetDone(a) ==
    /\ LogSteps(a, "dm_set")
    /\ log_dm_user_id' = Some(a)
    /\ admins' = [admins EXCEPT ![a] = IdleAdmin]
    /\ UNCHANGED log_channel_id

\* "userhandle logchannel [channel]" by admin a (lines 612-614, 623)
LogChannelCommand(a) ==
    \E channel \in {None} \cup {Some(c) : c \in Channels} :
        /\ LogSteps(a, "idle")
        /\ admins' = [admins EXCEPT ![a] =
                         [pc |-> IF channel = None THEN "ch_off" ELSE "ch_clear",
                          channel |-> channel]]
        /\ UNCHANGED <<log_dm_user_id, log_channel_id>>

\* log_channel_id.set(None) of line 614 completed
LogChannelOffDone(a) ==
    /\ LogSteps(a, "ch_off")
    /\ log_channel_id' = None
    /\ admins' = [admins EXCEPT ![a] = IdleAdmin]
    /\ UNCHANGED log_dm_user_id

\* log_dm_user_id.set(None) of line 623 completed
LogChannelClearDone(a) ==
    /\ LogSteps(a, "ch_clear")
    /\ log_dm_user_id' = None
    /\ admins' = [admins EXCEPT ![a].pc = "ch_set"]
    /\ UNCHANGED log_channel_id

\* log_channel_id.set(channel.id) of line 624 completed
LogChannelSetDone(a) ==
    /\ LogSteps(a, "ch_set")
    /\ log_channel_id' = admins[a].channel
    /\ admins' = [admins EXCEPT ![a] = IdleAdmin]
    /\ UNCHANGED log_dm_user_id

-----------------------------------------------------------------------------
(* Initial states                                                          *)

MaxEvents == 2

tA == <<"A">>

tAl == <<"a", "l">>

tBo == <<"b", "o">>

tB == <<"B">>

tC == <<"C">>

tBx == <<"B", " ", "(", "x", ")">>

\* a guild where the cog has not run: one role, "A", made by an admin
Fresh ==
    [roles |-> [r \in {1} |-> tA],
     created |-> {},
     held |-> [m \in Members |-> {}],
     store |-> [k \in {} |-> <<>>]]

\* both members got their display-name role from an earlier sync, named
\* after their usernames; member 2 lost the role (its add failed)
Provisioned ==
    [roles |-> <<tA, tAl, tBo>>,
     created |-> {2, 3},
     held |-> [m \in Members |-> IF m = 1 THEN {2} ELSE {}],
     store |-> [k \in {Key(1), Key(2)} |->
                  IF k = Key(1) THEN Current(Some(2), <<>>) ELSE Current(Some(3), <<>>)]]

\* member 1 also has the custom handles "B" and "C" and lost the role of "B"
\* (its add failed); member 2's record is still in the legacy {role_id}
\* shape and its role has been deleted by an admin
Handles ==
    [roles |-> [r \in {1, 2, 4, 5} |->
                  CASE r = 1 -> tA [] r = 2 -> tAl [] r = 4 -> tB [] OTHER -> tC],
     created |-> {2, 3, 4, 5},
     held |-> [m \in Members |-> IF m = 1 THEN {2, 5} ELSE {}],
     store |-> [k \in {Key(1), Key(2)} |->
                  IF k = Key(1)
                  THEN Current(Some(2), <<[role_id |-> Some(4), name |-> tB],
                                          [role_id |-> Some(5), name |-> tC]>>)
                  ELSE [x \in {"role_id"} |-> Some(3)]]]

Scenarios == {Fresh, Provisioned, Handles}

Nicknames == {None, Some(tA)}

Blacklists == {<<>>, << <<"A", "l">>, tBx >>}

\* what a member can type after "set"
SetNames ==
    {<<" ">>, [i \in 1..(MaxNameLen + 1) |-> "x"], <<"A", "L">>, tB, tA,
     tBx \o <<" ", "(", "2", ")">>, <<"a", " ", "(", "2", ")">>}

\* what a member can type after "remove"
RemoveNames == {<<" ">>, tB, tC, <<"b">>}

Init ==
    /\ \E sc \in Scenarios :
          /\ roles = sc.roles
          /\ created = sc.created
          /\ held = sc.held
          /\ store = sc.store
    /\ nick \in {n \in [Members -> Nicknames] : \A m \in Bots : n[m] = None}
    /\ present = Members
    /\ blacklist \in Blacklists
    /\ storeLock = None
    /\ lastSyncError = None
    /\ procs = [p \in Slots |-> IdleProc]
    /\ sweep = IdleSweep
    /\ done = None
    /\ budget = MaxEvents
    /\ fargs = <<>>
    /\ fret = None
    /\ LogDefaults

-----------------------------------------------------------------------------
(* Actions.  alone = TRUE starts an invocation only when nothing else is   *)
(* in flight.                                                              *)

\* The mutated start: a command or listener begins only while no pass of the
\* sweep is inside the sweep lock.
StartsBehindSweep(p, alone) ==
    /\ budget > 0
    /\ procs[p].pc = "idle"
    /\ sweep.pc = "idle"
    /\ \A q \in Slots : q < p => procs[q].pc # "idle"
    /\ alone => Quiet
    /\ budget' = budget - 1
    /\ UNCHANGED <<nick, present, blacklist, done, fargs, fret, logVars>>

Starts(p, alone) ==
    /\ budget > 0
    /\ procs[p].pc = "idle"
    /\ \A q \in Slots : q < p => procs[q].pc # "idle"
    /\ alone => Quiet
    /\ budget' = budget - 1
    /\ UNCHANGED <<nick, present, blacklist, done, fargs, fret, logVars>>

Started(p, op, m, name) ==
    [World EXCEPT !.procs[p] = [IdleProc EXCEPT !.op = op, !.pc = "run", !.m = m,
                                                !.name = name, !.store0 = store,
                                                !.held0 = held]]

Steps(p, pc) ==
    /\ procs[p].pc = pc
    /\ UNCHANGED <<nick, present, blacklist, done, fargs, fret, logVars>>

\* a remote call succeeds, or fails (Forbidden, HTTPException) while failures
\* are still allowed
Outcome(ok) ==
    /\ ~ok => budget > 0
    /\ budget' = IF ok THEN budget ELSE budget - 1

\* a member joins: on_member_join
MemberJoin(p, alone) ==
    \E m \in Members :
        /\ Starts(p, alone)
        /\ Becomes(JoinBegin(Started(p, "join", m, <<>>), p))

\* a member sends "userhandle set <name>"
SetCommand(p, alone) ==
    \E m \in Members \ Bots, name \in SetNames :
        /\ Starts(p, alone)
        /\ Becomes(SetBegin(Started(p, "set", m, name), p))

\* a member sends "userhandle clear"
ClearCommand(p, alone) ==
    \E m \in Members \ Bots :
        /\ Starts(p, alone)
        /\ Becomes(ClearBegin(Started(p, "clear", m, <<>>), p))

\* a member sends "userhandle remove <name>"
RemoveCommand(p, alone) ==
    \E m \in Members \ Bots, name \in RemoveNames :
        /\ Starts(p, alone)
        /\ Becomes(RemoveBegin(Started(p, "remove", m, name), p))

\* an admin sends "userhandle sync"
AdminSyncCommand(p, alone) ==
    /\ Starts(p, alone)
    /\ Becomes(AdminSyncBegin(Started(p, "sync", 0, <<>>), p))

\* the context manager an invocation waits for is free again
LockFreed(p) ==
    /\ storeLock = None
    /\ procs[p].pc \in {"es_begin", "es_persist", "ec_begin", "ec_persist",
                        "cl_begin", "rm_begin"}
    /\ Becomes(CASE procs[p].pc = "es_begin" -> EnsureSyncBegin(World, p)
                 [] procs[p].pc = "es_persist" -> PersistSync(World, p)
                 [] procs[p].pc = "ec_begin" -> EnsureCustomBegin(World, p)
                 [] procs[p].pc = "ec_persist" -> PersistCustom(World, p)
                 [] procs[p].pc = "cl_begin" -> ClearBegin(World, p)
                 [] OTHER -> RemoveBegin(World, p))
    /\ UNCHANGED <<nick, present, blacklist, done, budget, fargs, fret, logVars>>

SyncCreateDone(p) ==
    /\ Steps(p, "es_create")
    /\ \E ok \in BOOLEAN : Outcome(ok) /\ Becomes(SyncCreated(World, p, ok))

SyncRenameDone(p) ==
    /\ Steps(p, "es_rename")
    /\ \E ok \in BOOLEAN : Outcome(ok) /\ Becomes(SyncRenamed(World, p, ok))

SyncAddDone(p) ==
    /\ Steps(p, "es_add")
    /\ \E ok \in BOOLEAN : Outcome(ok) /\ Becomes(SyncAdded(World, p, ok))

CustomCreateDone(p) ==
    /\ Steps(p, "ec_create")
    /\ \E ok \in BOOLEAN : Outcome(ok) /\ Becomes(CustomCreated(World, p, ok))

CustomAddDone(p) ==
    /\ Steps(p, "ec_add")
    /\ \E ok \in BOOLEAN : Outcome(ok) /\ Becomes(CustomAdded(World, p, ok))

CustomReaddDone(p) ==
    /\ Steps(p, "ec_readd")
    /\ \E ok \in BOOLEAN : Outcome(ok) /\ Becomes(CustomAdded(World, p, ok))

ClearRemoveDone(p) ==
    /\ Steps(p, "cl_remove")
    /\ \E ok \in BOOLEAN : Outcome(ok) /\ Becomes(ClearRemoved(World, p, ok))

RemoveRemoveDone(p) ==
    /\ Steps(p, "rm_remove")
    /\ \E ok \in BOOLEAN : Outcome(ok) /\ Becomes(RemoveRemoved(World, p, ok))

AdminSyncStarted(p) ==
    /\ Steps(p, "as_start")
    /\ budget' = budget
    /\ Becomes(AdminSyncMembers(World, p))

AdminSyncSlept(p) ==
    /\ Steps(p, "as_sleep")
    /\ budget' = budget
    /\ Becomes(AdminSyncNext(World, p))

\* the invocation is over; what it did is remembered until the next one ends
Finish(p) ==
    /\ procs[p].pc = "ret"
    /\ procs' = [procs EXCEPT ![p] = IdleProc]
    /\ done' = Some([op |-> procs[p].op, m |-> procs[p].m, name |-> procs[p].name,
                     result |-> procs[p].result,
                     failed |-> \E i \in 1..Len(procs[p].calls) : ~procs[p].calls[i].ok])
    /\ UNCHANGED <<roles, created, held, nick, present, store, blacklist, storeLock,
                   lastSyncError, sweep, budget, fargs, fret, logVars>>

\* the five-minute timer fires: sync_role_names
SweepStart(alone) ==
    /\ budget > 0
    /\ sweep.pc = "idle"
    /\ alone => Quiet
    /\ budget' = budget - 1
    /\ Becomes(SweepBegin(World))
    /\ UNCHANGED <<nick, present, blacklist, done, fargs, fret, logVars>>

SweepSteps(pc) ==
    /\ sweep.pc = pc
    /\ UNCHANGED <<nick, present, blacklist, done, fargs, fret, logVars>>

SweepChunkDone ==
    /\ SweepSteps("sw_chunk")
    /\ budget' = budget
    /\ Becomes(SweepChunked(World))

SweepLockFreed ==
    /\ SweepSteps("sw_txn")
    /\ budget' = budget
    /\ storeLock = None
    /\ Becomes(SweepTxn(World))

SweepRenameDone ==
    /\ SweepSteps("sw_rename")
    /\ \E ok \in BOOLEAN, fresh \in BOOLEAN :
          Outcome(ok) /\ Becomes(SweepRenamed(World, ok, fresh))

SweepAddDone ==
    /\ SweepSteps("sw_add")
    /\ \E ok \in BOOLEAN : Outcome(ok) /\ Becomes(SweepAdded(World, ok))

SweepReaddDone ==
    /\ SweepSteps("sw_readd")
    /\ \E ok \in BOOLEAN : Outcome(ok) /\ Becomes(SweepAdded(World, ok))

SweepSleepDone ==
    /\ SweepSteps("sw_sleep")
    /\ budget' = budget
    /\ Becomes(SweepSlept(World))

\* the pass is over (line 174); the task waits for the next tick
SweepFinish ==
    /\ sweep.pc = "ret"
    /\ sweep' = IdleSweep
    /\ done' = None
    /\ UNCHANGED <<roles, created, held, nick, present, store, blacklist, storeLock,
                   lastSyncError, procs, budget, fargs, fret, logVars>>

\* a member changes the server nickname
ChangeNick(alone) ==
    \E m \in Members \ Bots, n \in Nicknames :
        /\ budget > 0
        /\ alone => Quiet
        /\ n # nick[m]
        /\ nick' = [nick EXCEPT ![m] = n]
        /\ budget' = budget - 1
        /\ done' = None
        /\ UNCHANGED <<roles, created, held, present, store, blacklist, storeLock,
                       lastSyncError, procs, sweep, fargs, fret, logVars>>

\* an admin deletes a role in the server settings
DeleteRole(alone) ==
    \E r \in DOMAIN roles :
        /\ budget > 0
        /\ alone => Quiet
        /\ roles' = [x \in DOMAIN roles \ {r} |-> roles[x]]
        /\ held' = [m \in Members |-> held[m] \ {r}]
        /\ budget' = budget - 1
        /\ done' = None
        /\ UNCHANGED <<created, nick, present, store, blacklist, storeLock,
                       lastSyncError, procs, sweep, fargs, fret, logVars>>

\* Commands, events and the sweep interleave at their awaits.
Next ==
    \/ \E p \in Slots :
          \/ MemberJoin(p, FALSE)
          \/ SetCommand(p, FALSE)
          \/ ClearCommand(p, FALSE)
          \/ RemoveCommand(p, FALSE)
          \/ AdminSyncCommand(p, FALSE)
          \/ LockFreed(p)
          \/ SyncCreateDone(p)
          \/ SyncRenameDone(p)
          \/ SyncAddDone(p)
          \/ CustomCreateDone(p)
          \/ CustomAddDone(p)
          \/ CustomReaddDone(p)
          \/ ClearRemoveDone(p)
          \/ RemoveRemoveDone(p)
          \/ AdminSyncStarted(p)
          \/ AdminSyncSlept(p)
          \/ Finish(p)
    \/ SweepStart(FALSE)
    \/ SweepChunkDone
    \/ SweepLockFreed
    \/ SweepRenameDone
    \/ SweepAddDone
    \/ SweepReaddDone
    \/ SweepSleepDone
    \/ SweepFinish
    \/ ChangeNick(FALSE)
    \/ DeleteRole(FALSE)

Spec == Init /\ [][Next]_vars

\* One invocation at a time, each run to its end before the next starts.
NextSeq ==
    \/ MemberJoin(1, TRUE)
    \/ SetCommand(1, TRUE)
    \/ ClearCommand(1, TRUE)
    \/ RemoveCommand(1, TRUE)
    \/ AdminSyncCommand(1, TRUE)
    \/ SyncCreateDone(1)
    \/ SyncRenameDone(1)
    \/ SyncAddDone(1)
    \/ CustomCreateDone(1)
    \/ CustomAddDone(1)
    \/ CustomReaddDone(1)
    \/ ClearRemoveDone(1)
    \/ RemoveRemoveDone(1)
    \/ AdminSyncStarted(1)
    \/ AdminSyncSlept(1)
    \/ Finish(1)
    \/ SweepStart(TRUE)
    \/ SweepChunkDone
    \/ SweepRenameDone
    \/ SweepAddDone
    \/ SweepReaddDone
    \/ SweepSleepDone
    \/ SweepFinish
    \/ ChangeNick(TRUE)
    \/ DeleteRole(TRUE)

SpecSeq == Init /\ [][NextSeq]_vars

-----------------------------------------------------------------------------
(* The sweep beside one command.  sync_role_names holds self._sync_lock    *)
(* from the start of a pass to its end (lines 167-174); nothing else in    *)
(* the cog takes that lock.                                                 *)

\* async with self._sync_lock: a pass is inside the lock
SyncLockHeld == sweep.pc # "idle"

\* one command or listener at a time, interleaved with the sweep
NextBeside ==
    \/ MemberJoin(1, FALSE)
    \/ SetCommand(1, FALSE)
    \/ ClearCommand(1, FALSE)
    \/ RemoveCommand(1, FALSE)
    \/ AdminSyncCommand(1, FALSE)
    \/ SyncCreateDone(1)
    \/ SyncRenameDone(1)
    \/ SyncAddDone(1)
    \/ CustomCreateDone(1)
    \/ CustomAddDone(1)
    \/ CustomReaddDone(1)
    \/ ClearRemoveDone(1)
    \/ RemoveRemoveDone(1)
    \/ AdminSyncStarted(1)
    \/ AdminSyncSlept(1)
    \/ Finish(1)
    \/ SweepStart(FALSE)
    \/ SweepChunkDone
    \/ SweepLockFreed
    \/ SweepRenameDone
    \/ SweepAddDone
    \/ SweepReaddDone
    \/ SweepSleepDone
    \/ SweepFinish

\* a guild the cog has run in, with no blacklist; member 1 has no nickname
InitBeside == Init /\ blacklist = <<>> /\ DOMAIN store # {} /\ nick[1] = None

SpecBeside == InitBeside /\ [][NextBeside]_vars

-----------------------------------------------------------------------------
(* userhandle_sync beside on_member_join in a guild where the cog has not  *)
(* run yet: self._last_sync_error is one field of the cog, written by      *)
(* every _ensure_sync_role call and read by the report of the sync.        *)

MaxBatchEvents == 5

InitBatch ==
    /\ roles = Fresh.roles
    /\ created = Fresh.created
    /\ held = Fresh.held
    /\ store = Fresh.store
    /\ nick = [m \in Members |-> None]
    /\ present = Members
    /\ blacklist = <<>>
    /\ storeLock = None
    /\ lastSyncError = None
    /\ procs = [p \in Slots |-> IdleProc]
    /\ sweep = IdleSweep
    /\ done = None
    /\ budget = MaxBatchEvents
    /\ fargs = <<>>
    /\ fret = None
    /\ LogDefaults

NextBatch ==
    \E p \in Slots :
        \/ AdminSyncCommand(p, FALSE)
        \/ MemberJoin(p, FALSE)
        \/ SyncCreateDone(p)
        \/ SyncAddDone(p)
        \/ AdminSyncStarted(p)
        \/ AdminSyncSlept(p)
        \/ Finish(p)

SpecBatch == InitBatch /\ [][NextBatch]_vars

-----------------------------------------------------------------------------
(* Unexpected errors.  An awaited Discord call can also raise an error     *)
(* that is neither discord.Forbidden nor discord.HTTPException (a          *)
(* connection error, a timeout); the call has then had no effect.          *)

\* in the sweep no clause of the loop catches it (line 238 names ValueError
\* and KeyError only): it leaves _sync_guild_roles and is logged at line 172,
\* and the pass over the guild is over
SweepRaised(w) ==
    [w EXCEPT !.sweep.failed = @ \cup {Head(w.sweep.queue)}, !.sweep.pc = "ret"]

\* in _ensure_sync_role nothing catches it: userhandle_sync logs it at line
\* 666, remembers it and goes on with the next member; on_member_join and
\* userhandle_set end with it
SyncRaised(w, p) ==
    IF w.procs[p].op = "sync"
    THEN [RememberError(w, p) EXCEPT !.procs[p].pc = "as_sleep",
                                     !.procs[p].queue = Tail(@)]
    ELSE Return(w, p, "raised", None)

SweepCallRaises ==
    /\ sweep.pc \in {"sw_rename", "sw_add", "sw_readd"}
    /\ budget > 0
    /\ budget' = budget - 1
    /\ Becomes(SweepRaised(World))
    /\ UNCHANGED <<nick, present, blacklist, done, fargs, fret, logVars>>

SyncCallRaises(p) ==
    /\ procs[p].pc \in {"es_create", "es_rename", "es_add"}
    /\ budget > 0
    /\ budget' = budget - 1
    /\ Becomes(SyncRaised(World, p))
    /\ UNCHANGED <<nick, present, blacklist, done, fargs, fret, logVars>>

\* one invocation at a time, with unexpected errors
NextFaults == NextSeq \/ SweepCallRaises \/ SyncCallRaises(1)

SpecFaults == Init /\ [][NextFaults]_vars

-----------------------------------------------------------------------------
(* The two pure functions on their own: the input is drawn in the initial  *)
(* state and one step applies the function to it.                          *)

MaxSuffix == 3

NormIds == 2

tAlice == <<"A", "l", "i", "c", "e">>

tZo == <<"Z", "o">>

tZoOld == <<"Z", "o", "-", "o", "l", "d">>

tBob == <<"B", "o", "b">>

NamerTexts == {tAlice, tZo, tZoOld} \cup {Suffixed(tAlice, k) : k \in 2..MaxSuffix}

NamerInputs ==
    [fn : {"unique"},
     base_name : {tAlice, tZo, Suffixed(tAlice, 2)},
     existing_names : SUBSET NamerTexts,
     exclude_role : {None} \cup {Some(t) : t \in NamerTexts}]

\* a key of a stored record: <<>> when the key is missing, <<v>> when it is
\* stored with the Optional value v
Stored(values) == {<<>>, <<None>>} \cup {<<Some(v)>> : v \in values}

NormEntries == {[role_id |-> Some(i), name |-> n] : i \in 1..NormIds, n \in {tBob, tZo}}

NormLists == {<<>>} \cup {<<e>> : e \in NormEntries}
                 \cup {<<[role_id |-> Some(1), name |-> tBob],
                         [role_id |-> Some(2), name |-> tZo]>>}

RawRecord(rid, sid, cid, cname, croles) ==
    LET given == [k \in RecordKeys |->
                    CASE k = "role_id" -> rid
                      [] k = "sync_role_id" -> sid
                      [] k = "custom_role_id" -> cid
                      [] k = "custom_name" -> cname
                      [] k = "custom_roles" -> croles]
    IN  [k \in {x \in RecordKeys : given[x] # <<>>} |-> given[k][1]]

NormInputs ==
    {[fn |-> "normalize", info |-> RawRecord(rid, sid, cid, cname, croles)] :
        rid \in Stored(1..NormIds), sid \in Stored(1..NormIds),
        cid \in Stored(1..NormIds), cname \in Stored({<<>>, tBob}),
        croles \in Stored(NormLists)}

\* the engine at rest, while a pure function is checked on its own
EngineOff ==
    /\ roles = Fresh.roles
    /\ created = {}
    /\ held = Fresh.held
    /\ nick = [m \in Members |-> None]
    /\ present = Members
    /\ store = Fresh.store
    /\ blacklist = <<>>
    /\ storeLock = None
    /\ lastSyncError = None
    /\ procs = [p \in Slots |-> IdleProc]
    /\ sweep = IdleSweep
    /\ done = None
    /\ budget = 0

InitPure ==
    /\ EngineOff
    /\ fargs \in NamerInputs \cup NormInputs
    /\ fret = None
    /\ LogDefaults

ApplyNamer ==
    /\ fret = None
    /\ fargs.fn = "unique"
    /\ fret' = Some(unique_role_name(fargs.base_name, fargs.existing_names,
                                     fargs.exclude_role))
    /\ UNCHANGED <<engineVars, fargs, logVars>>

ApplyNormalize ==
    /\ fret = None
    /\ fargs.fn = "normalize"
    /\ fret' = Some(normalize_info(fargs.info))
    /\ UNCHANGED <<engineVars, fargs, logVars>>

NextPure == ApplyNamer \/ ApplyNormalize

SpecPure == InitPure /\ [][NextPure]_vars

-----------------------------------------------------------------------------
(* The log settings on their own: the commands of the admins interleave at *)
(* their awaits.                                                           *)

InitLog ==
    /\ EngineOff
    /\ fargs = <<>>
    /\ fret = None
    /\ LogDefaults

NextLog ==
    \E a \in Admins :
        \/ LogDmCommand(a)
        \/ LogDmOffDone(a)
        \/ LogDmClearDone(a)
        \/ LogDmSetDone(a)
        \/ LogChannelCommand(a)
        \/ LogChannelOffDone(a)
        \/ LogChannelClearDone(a)
        \/ LogChannelSetDone(a)

SpecLog == InitLog /\ [][NextLog]_vars

\* one admin command at a time
NextLogSeq ==
    \E a \in Admins :
        \/ (\A b \in Admins : admins[b].pc = "idle") /\ LogDmCommand(a)
        \/ LogDmOffDone(a)
        \/ LogDmClearDone(a)
        \/ LogDmSetDone(a)
        \/ (\A b \in Admins : admins[b].pc = "idle") /\ LogChannelCommand(a)
        \/ LogChannelOffDone(a)
        \/ LogChannelClearDone(a)
        \/ LogChannelSetDone(a)

SpecLogSeq == InitLog /\ [][NextLogSeq]_vars

\* the set _unique_role_name works on: the in-use set less the excluded
\* role's own name
WorkingSet(a) ==
    IF a.exclude_role # None /\ The(a.exclude_role) \in a.existing_names
    THEN a.existing_names \ a.exclude_role
    ELSE a.existing_names

\* C3: _unique_role_name returns the desired text when it is not in the working
\* set, else "d (k)" for the least k >= 2 with "d (k)" not in the working set;
\* the result is never in the working set, the caller's set is left as it was,
\* and {"Alice", "Alice (2)"} with desired "Alice" gives "Alice (3)".
UniqueNamerResult ==
    (fargs.fn = "unique" /\ fret # None) =>
        LET d == fargs.base_name
            W == WorkingSet(fargs)
            r == The(fret)
        IN  /\ r.name \notin W
            /\ d \notin W => r.name = d
            /\ d \in W =>
                  \E k \in 2..(Cardinality(W) + 2) :
                      /\ r.name = d \o <<" ", "(">> \o Digits(k) \o <<")">>
                      /\ \A j \in 2..(k - 1) :
                            (d \o <<" ", "(">> \o Digits(j) \o <<")">>) \in W
            /\ r.existing_names = fargs.existing_names
            /\ (d = tAlice /\ fargs.existing_names = {tAlice, tAlice \o <<" ", "(", "2", ")">>}
                   /\ fargs.exclude_role = None)
                  => r.name = <<"A", "l", "i", "c", "e", " ", "(", "3", ")">>

UniqueNamerWitness ==
    /\ fargs.fn = "unique"
    /\ fret # None
    /\ fargs.base_name = tAlice
    /\ fargs.existing_names = {tAlice, <<"A", "l", "i", "c", "e", " ", "(", "2", ")">>}
    /\ fargs.exclude_role = None
    /\ The(fret).name = <<"A", "l", "i", "c", "e", " ", "(", "3", ")">>

\* C4: _normalize_info returns exactly the keys sync_role_id and custom_roles
\* (custom_roles a list) for every stored record, whatever keys it has and
\* whichever of them are null, and normalizing the result again returns it.
NormalizeShapeIdempotent ==
    (fargs.fn = "normalize" /\ fret # None) =>
        LET r == The(fret)
        IN  /\ DOMAIN r = {"sync_role_id", "custom_roles"}
            /\ r["custom_roles"] # None
            /\ normalize_info(r) = r

NormalizeWitness ==
    /\ fargs.fn = "normalize"
    /\ fret # None
    /\ DOMAIN fargs.info = {"role_id", "custom_role_id", "custom_name"}
    /\ fargs.info["custom_name"] = None
    /\ The(fret) # fargs.info

\* the stored record has exactly the keys ks, none of them null
HasExactly(info, ks) == DOMAIN info = ks /\ \A k \in ks : info[k] # None

\* C5 as stated: merged {role_id i, custom_name n}, n non-empty -> (null, [{i, n}]);
\* {role_id i} -> (i, []); dual {sync_role_id s, custom_role_id c, custom_name n}
\* -> (s, [{c, n}]) for every text n; a current record is returned unchanged.
LegacyDecodingAsStated ==
    (fargs.fn = "normalize" /\ fret # None) =>
        LET info == fargs.info
            r == The(fret)
        IN  /\ (HasExactly(info, {"role_id", "custom_name"}) /\ The(info["custom_name"]) # <<>>)
                  => r = Current(None, <<[role_id |-> info["role_id"],
                                          name |-> The(info["custom_name"])]>>)
            /\ HasExactly(info, {"role_id"}) => r = Current(info["role_id"], <<>>)
            /\ (/\ DOMAIN info = {"sync_role_id", "custom_role_id", "custom_name"}
                /\ info["custom_role_id"] # None
                /\ info["custom_name"] # None)
                  => r = Current(info["sync_role_id"],
                                 <<[role_id |-> info["custom_role_id"],
                                    name |-> The(info["custom_name"])]>>)
            /\ (DOMAIN info = {"sync_role_id", "custom_roles"} /\ info["custom_roles"] # None)
                  => r = info

\* C5 as amended: as stated, with the dual record's n non-empty; a dual record
\* whose custom_name is empty or null gets the name "custom", and a role_id
\* stored with an empty or null custom_name becomes the sync role.
LegacyDecoding ==
    (fargs.fn = "normalize" /\ fret # None) =>
        LET info == fargs.info
            r == The(fret)
            named == Get(info, "custom_name") # None /\ The(info["custom_name"]) # <<>>
        IN  /\ (HasExactly(info, {"role_id", "custom_name"}) /\ named)
                  => r = Current(None, <<[role_id |-> info["role_id"],
                                          name |-> The(info["custom_name"])]>>)
            /\ (/\ DOMAIN info \in {{"role_id"}, {"role_id", "custom_name"}}
                /\ info["role_id"] # None
                /\ ~named)
                  => r = Current(info["role_id"], <<>>)
            /\ (/\ DOMAIN info = {"sync_role_id", "custom_role_id", "custom_name"}
                /\ info["custom_role_id"] # None)
                  => r = Current(info["sync_role_id"],
                                 <<[role_id |-> info["custom_role_id"],
                                    name |-> IF named THEN The(info["custom_name"])
                                             ELSE <<"c", "u", "s", "t", "o", "m">>]>>)
            /\ (DOMAIN info = {"sync_role_id", "custom_roles"} /\ info["custom_roles"] # None)
                  => r = info

LegacyDecodingWitness ==
    /\ fargs.fn = "normalize"
    /\ fret # None
    /\ HasExactly(fargs.info, {"role_id", "custom_name"})
    /\ fargs.info["custom_name"] = Some(tBob)
    /\ The(fret) = Current(None, <<[role_id |-> fargs.info["role_id"], name |-> tBob]>>)

-----------------------------------------------------------------------------
(* Properties of the engine                                                *)

\* the remote calls invocation p has issued so far
CallsOf(p) == {procs[p].calls[i] : i \in 1..Len(procs[p].calls)}

\* C1: when on_member_join has run _ensure_sync_role for a member and runs it
\* again for the same member with nothing changed in between, the first run
\* having met no remote failure, the second run issues no create and no
\* rename call and returns the label the first returned.
EnsureSyncIdempotent ==
    \A p \in Slots :
        (/\ procs[p].pc = "ret"
         /\ procs[p].op = "join"
         /\ procs[p].m \notin Bots
         /\ done # None
         /\ The(done).op = "join"
         /\ The(done).m = procs[p].m
         /\ ~The(done).failed)
        => /\ \A c \in CallsOf(p) : c.call \notin {"create_sync", "rename"}
           /\ procs[p].result = The(done).result

\* C2: no two roles of the guild have the same name.
LabelTextsUnique ==
    \A r1 \in DOMAIN roles, r2 \in DOMAIN roles : r1 # r2 => roles[r1] # roles[r2]

\* text equals a blacklist entry, or a blacklist entry followed by " (k)",
\* case-insensitively
Reserved(bl, text) ==
    \E i \in 1..Len(bl) :
        \/ Lower(text) = Lower(bl[i])
        \/ \E k \in 2..9 : Lower(text) = Lower(bl[i] \o <<" ", "(">> \o Digits(k) \o <<")">>)

\* C6: set / _ensure_custom_role never creates a role, and never tracks a
\* custom entry, whose name is a blacklist entry or a blacklist entry followed
\* by a suffix " (k)".
CustomLabelsRespectBlacklist ==
    /\ \A p \in Slots : \A c \in CallsOf(p) :
          (c.call = "create_custom" /\ c.ok) => ~Reserved(blacklist, c.name)
    /\ \A k \in DOMAIN store :
          LET cs == Customs(normalize_info(store[k]))
          IN  \A i \in 1..Len(cs) : ~Reserved(blacklist, cs[i].name)

\* C7: no create or rename call of the cog (set, admin sync, member join,
\* sweep) gives a role a name that is on the blacklist.
NoBlacklistedRoleName ==
    /\ \A p \in Slots : \A c \in CallsOf(p) :
          (c.call \in {"create_sync", "create_custom", "rename"} /\ c.ok)
              => ~IsRoleNameBlacklisted(blacklist, c.name)
    /\ \A x \in sweep.renamed : ~IsRoleNameBlacklisted(blacklist, x.name)

\* ids of the custom roles tracked for member m in the records st
TrackedIds(st, m) ==
    LET cs == Customs(normalize_info(GetRec(st, Key(m))))
    IN  UNION {cs[i].role_id : i \in 1..Len(cs)}

\* C8: clear for member A leaves A's sync_role_id as it was and A holding the
\* sync role, leaves every other member's record and roles as they were, and
\* issues only remove calls, each for A and for a role tracked in A's
\* custom_roles.
ClearNonInterference ==
    \A p \in Slots :
        (procs[p].pc = "ret" /\ procs[p].op = "clear") =>
            LET a == procs[p].m
                before == procs[p].store0
                sync0 == SyncId(normalize_info(GetRec(before, Key(a))))
            IN  /\ SyncId(normalize_info(GetRec(store, Key(a)))) = sync0
                /\ \A r \in sync0 : r \in procs[p].held0[a] => r \in held[a]
                /\ held[a] \subseteq procs[p].held0[a]
                /\ procs[p].held0[a] \ held[a] \subseteq TrackedIds(before, a)
                /\ \A b \in Members \ {a} :
                      /\ held[b] = procs[p].held0[b]
                      /\ (Key(b) \in DOMAIN store) = (Key(b) \in DOMAIN before)
                      /\ GetRec(store, Key(b)) = GetRec(before, Key(b))
                /\ \A c \in CallsOf(p) :
                      /\ c.call = "remove"
                      /\ c.member = a
                      /\ c.role \in TrackedIds(before, a)
                      /\ c.role \notin sync0

ClearWitness ==
    \E p \in Slots :
        /\ procs[p].pc = "ret"
        /\ procs[p].op = "clear"
        /\ procs[p].out = "cleared"
        /\ \E c \in CallsOf(p) : c.call = "remove" /\ c.ok
        /\ SyncId(normalize_info(GetRec(store, Key(procs[p].m)))) # None
        /\ \A r \in SyncId(normalize_info(GetRec(store, Key(procs[p].m)))) :
              r \in held[procs[p].m]
        /\ \E b \in Members \ {procs[p].m} : Key(b) \in DOMAIN store

\* name is the desired text or the desired text with a suffix " (k)"
NameFits(name, desired) ==
    \/ name = desired
    \/ \E k \in 2..9 : name = desired \o <<" ", "(">> \o Digits(k) \o <<")">>

\* C9: when a sweep of the guild ends, every record of its snapshot has been
\* visited, whichever rename or add calls failed on the way; and every record
\* whose own calls did not fail is reconciled: a sync role that is gone is
\* cleared from the record, a live one carries the member's display name
\* (with a suffix at most) and the member holds it.
SweepContainsFailures ==
    sweep.pc = "ret" =>
        /\ sweep.visited = DOMAIN sweep.data
        /\ \A k \in DOMAIN sweep.data \ sweep.failed :
              LET sid == SyncId(normalize_info(sweep.data[k]))
                  m == ParseInt(k)
              IN  sid # None =>
                     IF The(sid) \notin DOMAIN roles
                     THEN SyncId(normalize_info(GetRec(store, k))) = None
                     ELSE m \in present =>
                            /\ NameFits(roles[The(sid)], DesiredName(m))
                            /\ The(sid) \in held[m]

SweepWitness ==
    /\ sweep.pc = "ret"
    /\ \E k \in sweep.failed, x \in sweep.renamed :
          /\ ParseInt(k) < ParseInt(x.key)
          /\ x.key \notin sweep.failed
          /\ roles[The(SyncId(normalize_info(sweep.data[k])))] # DesiredName(ParseInt(k))

\* C10: when set rejects a request (empty name, name over 100 characters,
\* blacklisted name, name held by another member) it has issued no remote call
\* and the records are what they were when the command started.
RejectionChangesNothing ==
    \A p \in Slots :
        (/\ procs[p].pc = "ret"
         /\ procs[p].op = "set"
         /\ procs[p].out \in {"rejected_empty", "rejected_long", "rejected_blacklist",
                              "rejected_taken"})
        => /\ procs[p].calls = <<>>
           /\ store = procs[p].store0

\* C11: every role id stored in a record (sync_role_id or a custom_roles
\* entry) was returned by one of the cog's own create_role calls, every rename,
\* add and remove call targets such a role, and no member has been given a
\* role the cog did not create; a guild role that merely has the requested
\* name is never recorded.
OnlyOwnLabels ==
    /\ \A k \in DOMAIN store :
          LET n == normalize_info(store[k])
          IN  /\ SyncId(n) \subseteq created
              /\ \A i \in 1..Len(Customs(n)) : Customs(n)[i].role_id \subseteq created
    /\ \A p \in Slots : \A c \in CallsOf(p) :
          c.call \in {"rename", "add", "remove"} => c.role \in created
    /\ sweep.rid \subseteq created
    /\ \A m \in Members : held[m] \subseteq created

OnlyOwnLabelsWitness ==
    \E p \in Slots :
        /\ procs[p].op = "set"
        /\ procs[p].pc = "ret"
        /\ procs[p].out = "ok"
        /\ procs[p].name = tA
        /\ \E r \in ForeignRoles : r \in DOMAIN roles /\ roles[r] = tA
        /\ procs[p].result \cap ForeignRoles = {}
        /\ \E c \in CallsOf(p) : c.call = "add" /\ c.ok /\ c.role \in procs[p].result

\* C12: no step of the sweep (sync_role_names / _sync_guild_roles) creates a
\* role: it renames, re-adds membership or clears a dangling sync_role_id.
SweepNeverCreates ==
    [][sweep' # sweep => (created' = created /\ DOMAIN roles' = DOMAIN roles)]_vars

SweepNeverCreatesWitness ==
    /\ sweep.pc = "ret"
    /\ sweep.renamed # {}
    /\ \E k \in DOMAIN sweep.data :
          LET sid == SyncId(normalize_info(sweep.data[k]))
          IN  /\ sid # None
              /\ The(sid) \notin DOMAIN roles
              /\ SyncId(normalize_info(GetRec(store, k))) = None

\* C13: when userhandle_sync has returned and none of its remote calls
\* failed, every non-bot member has a record whose sync_role_id is a live role
\* that the member holds; and a bot never gets a record, a role or a remote
\* call from userhandle_sync or on_member_join.
AdminSyncProvisions ==
    /\ \A p \in Slots :
          (/\ procs[p].pc = "ret"
           /\ procs[p].op = "sync"
           /\ \A c \in CallsOf(p) : c.ok)
          => \A m \in present \ Bots :
                LET sid == SyncId(normalize_info(GetRec(store, Key(m))))
                IN  /\ Key(m) \in DOMAIN store
                    /\ sid # None
                    /\ The(sid) \in DOMAIN roles
                    /\ The(sid) \in held[m]
    /\ \A b \in Bots :
          /\ Key(b) \notin DOMAIN store
          /\ held[b] = {}
          /\ \A p \in Slots :
                procs[p].op \in {"sync", "join"} => \A c \in CallsOf(p) : c.member # b

AdminSyncWitness ==
    \E p \in Slots :
        /\ procs[p].pc = "ret"
        /\ procs[p].op = "sync"
        /\ procs[p].out = "synced"
        /\ \A c \in CallsOf(p) : c.ok
        /\ \A m \in present \ Bots :
              \E c \in CallsOf(p) : c.call = "create_sync" /\ c.member = m
        /\ Bots \cap present # {}

\* C14: no record of the store has both a null sync_role_id and an empty
\* custom_roles list.
NoEmptyRecords ==
    \A k \in DOMAIN store :
        LET n == normalize_info(store[k])
        IN  SyncId(n) # None \/ Customs(n) # <<>>

\* the sweep, clear or remove has pruned a record that had become empty
NoEmptyRecordsWitness ==
    \/ /\ sweep.pc = "ret"
       /\ \E k \in DOMAIN sweep.data : k \notin DOMAIN store
    \/ \E p \in Slots :
          /\ procs[p].pc = "ret"
          /\ procs[p].out \in {"cleared", "removed"}
          /\ Key(procs[p].m) \in DOMAIN procs[p].store0
          /\ Key(procs[p].m) \notin DOMAIN store

\* C15: the DM target and the log channel are never both set, whatever the
\* interleaving of logdm and logchannel commands of different admins.
LogTargetsExclusive == log_dm_user_id = None \/ log_channel_id = None

\* the sequence s without its i-th element
Without(s, i) == SubSeq(s, 1, i - 1) \o SubSeq(s, i + 1, Len(s))

\* C16: remove deletes at most one tracked entry, the first whose stored name
\* equals the given name, and clear empties the member's custom_roles; neither
\* changes the member's sync_role_id, a record or role of another member, nor
\* issues a call other than a remove for one of the member's tracked custom
\* roles; when the name matches no tracked entry, remove changes neither the
\* store nor any membership.
RemovalFrame ==
    \A p \in Slots :
        (procs[p].pc = "ret" /\ procs[p].op \in {"remove", "clear"}) =>
            LET a == procs[p].m
                k == Key(a)
                name == procs[p].name
                n0 == normalize_info(GetRec(procs[p].store0, k))
                n1 == normalize_info(GetRec(store, k))
                c0 == Customs(n0)
                c1 == Customs(n1)
                hits == {i \in 1..Len(c0) : c0[i].name = name}
            IN  /\ SyncId(n1) = SyncId(n0)
                /\ \A b \in Members \ {a} :
                      /\ held[b] = procs[p].held0[b]
                      /\ GetRec(store, Key(b)) = GetRec(procs[p].store0, Key(b))
                /\ held[a] \subseteq procs[p].held0[a]
                /\ \A c \in CallsOf(p) :
                      /\ c.call = "remove"
                      /\ c.member = a
                      /\ c.role \in TrackedIds(procs[p].store0, a)
                /\ procs[p].op = "clear" =>
                      /\ procs[p].out = "cleared" => c1 = <<>>
                      /\ procs[p].out # "cleared" => store = procs[p].store0
                /\ procs[p].op = "remove" =>
                      /\ Len(procs[p].calls) <= 1
                      /\ hits = {} => (store = procs[p].store0 /\ held = procs[p].held0)
                      /\ procs[p].out = "removed" =>
                            /\ hits # {}
                            /\ c1 = Without(c0, CHOOSE i \in hits : \A j \in hits : i <= j)
                      /\ procs[p].out # "removed" => store = procs[p].store0

RemovalFrameWitness ==
    \E p \in Slots :
        /\ procs[p].pc = "ret"
        /\ procs[p].op = "remove"
        /\ procs[p].out = "removed"
        /\ \E c \in CallsOf(p) : c.call = "remove" /\ c.ok
        /\ Customs(normalize_info(GetRec(store, Key(procs[p].m)))) # <<>>
        /\ SyncId(normalize_info(GetRec(store, Key(procs[p].m)))) # None

\* C17: the write-back of _ensure_custom_role after its create_role call
\* adds the new entry to the custom_roles the record holds at that moment:
\* nothing another set, remove or clear committed since the first read is lost
\* or brought back.
CustomWriteBackIsFresh ==
    [][\A p \in Slots :
          (procs[p].pc \in {"ec_create", "ec_persist"} /\ procs'[p].pc = "ec_add") =>
              LET k == Key(procs[p].m)
                  before == Customs(normalize_info(GetRec(store, k)))
                  after == Customs(normalize_info(GetRec(store', k)))
              IN  /\ Len(after) = Len(before) + 1
                  /\ SubSeq(after, 1, Len(before)) = before]_vars

\* C18: no step of the sweep takes away the sync_role_id of a record that,
\* at the moment of that step, refers to a live role.
SweepClearsOnlyDangling ==
    [][sweep' # sweep =>
          \A k \in DOMAIN store :
              LET sid == SyncId(normalize_info(store[k]))
              IN  (sid # None /\ The(sid) \in DOMAIN roles) =>
                      /\ k \in DOMAIN store'
                      /\ SyncId(normalize_info(store'[k])) = sid]_vars

\* C19: the invocations of _ensure_sync_role in flight for one member (join,
\* set, admin sync), none of them having found the member's stored role
\* deleted, create at most one sync role for that member between them.
OneSyncLabelPerMember ==
    \A p \in Slots, q \in Slots :
        \A c \in CallsOf(p), d \in CallsOf(q) :
            (/\ c.call = "create_sync" /\ c.ok
             /\ d.call = "create_sync" /\ d.ok
             /\ c.member = d.member
             /\ {c.role, d.role} \subseteq DOMAIN roles
             /\ \A x \in {p, q} :
                   SyncId(normalize_info(GetRec(procs[x].store0, Key(c.member))))
                       \subseteq DOMAIN roles)
            => c.role = d.role

\* C20: when a set command has added a custom handle without a remote
\* failure and the same member sends set with the same name again, nothing
\* having changed in between, the second _ensure_custom_role issues no create
\* call, tracks no further entry and returns the role the first returned.
EnsureCustomIdempotent ==
    \A p \in Slots :
        (/\ procs[p].pc = "ret"
         /\ procs[p].op = "set"
         /\ done # None
         /\ The(done).op = "set"
         /\ The(done).m = procs[p].m
         /\ The(done).name = procs[p].name
         /\ The(done).result # None
         /\ ~The(done).failed)
        => /\ \A c \in CallsOf(p) : c.call # "create_custom"
           /\ procs[p].result = The(done).result
           /\ GetRec(store, Key(procs[p].m)) = GetRec(procs[p].store0, Key(procs[p].m))

\* C21: when set reaches _ensure_custom_role for a name the member already
\* tracks, no role is created, the record stays as it was, and the tracked
\* role is returned (a role, never None), whatever has become of it in the
\* guild.
TrackedEntryShortCircuit ==
    \A p \in Slots :
        LET k == Key(procs[p].m)
            c0 == Customs(normalize_info(GetRec(procs[p].store0, k)))
            hits == {i \in 1..Len(c0) : c0[i].role_id # None /\ c0[i].name = procs[p].name}
        IN  (/\ procs[p].pc = "ret"
             /\ procs[p].op = "set"
             /\ procs[p].out \in {"ok", "custom_failed"}
             /\ hits # {})
            => /\ \A c \in CallsOf(p) : c.call # "create_custom"
               /\ Customs(normalize_info(GetRec(store, k))) = c0
               /\ procs[p].result = c0[CHOOSE i \in hits : \A j \in hits : i <= j].role_id

\* C22: no two members track custom handles whose stored names are equal
\* case-insensitively.
CustomNamesUniqueAcrossMembers ==
    \A k1 \in DOMAIN store, k2 \in DOMAIN store :
        k1 # k2 =>
            LET c1 == Customs(normalize_info(store[k1]))
                c2 == Customs(normalize_info(store[k2]))
            IN  \A i \in 1..Len(c1), j \in 1..Len(c2) :
                    Lower(Strip(c1[i].name)) # Lower(Strip(c2[j].name))

\* C23: an unexpected error raised while one member is processed is
\* swallowed for that member: when the sweep's pass over the guild ends every
\* record of its snapshot has been processed, and when userhandle_sync
\* reports, every member of its list has been processed.
UnexpectedErrorsContained ==
    /\ sweep.pc = "ret" => DOMAIN sweep.data \subseteq sweep.visited \cup sweep.failed
    /\ \A p \in Slots :
          (procs[p].pc = "ret" /\ procs[p].out \in {"synced", "none_created"})
              => procs[p].queue = <<>>

\* the call invocation p issued in the step just taken, if it issued one
IssuedCall(p) ==
    IF Len(procs'[p].calls) = Len(procs[p].calls) + 1
    THEN Some(procs'[p].calls[Len(procs'[p].calls)])
    ELSE None

\* C24: when create_role fails in _ensure_sync_role or _ensure_custom_role,
\* the function returns None to its caller at once: every record, every role
\* and every membership is what it was before the call, no add call follows,
\* and the caller ends with no role (userhandle_sync goes on to its next
\* member without counting this one).
CreateFailureLeavesStore ==
    [][\A p \in Slots :
          (/\ procs[p].pc \in {"es_create", "ec_create"}
           /\ IssuedCall(p) # None
           /\ ~The(IssuedCall(p)).ok)
          => /\ store' = store
             /\ roles' = roles
             /\ held' = held
             /\ created' = created
             /\ IF procs[p].op = "sync"
                THEN /\ procs'[p].pc = "as_sleep"
                     /\ procs'[p].count = procs[p].count
                ELSE /\ procs'[p].pc = "ret"
                     /\ procs'[p].result = None
                     /\ procs'[p].out \in {"done", "sync_failed", "custom_failed"}]_vars

CreateFailureWitness ==
    /\ procs[1].pc = "ret"
    /\ procs[1].op = "set"
    /\ procs[1].out = "custom_failed"
    /\ Len(procs[1].calls) > 0
    /\ procs[1].calls[Len(procs[1].calls)].call = "create_custom"
    /\ ~procs[1].calls[Len(procs[1].calls)].ok
    /\ store = procs[1].store0
    /\ DOMAIN store # {}

\* _ensure_sync_role has returned role rid to the caller of invocation p in
\* the step just taken
SyncReturnedLabel(p, rid) ==
    CASE procs[p].op = "join" -> procs'[p].pc = "ret" /\ procs'[p].result = rid
      [] procs[p].op = "sync" ->
            procs'[p].pc = "as_sleep" /\ procs'[p].count = procs[p].count + 1
      [] OTHER ->
            /\ procs'[p].out # "sync_failed"
            /\ procs'[p].out \in {"rejected_blacklist", "rejected_taken"}
                  \/ procs'[p].sync = rid

\* C25: when role.edit fails in _ensure_sync_role the function goes on to the
\* add step (it calls add_roles if the member lacks the role), and when
\* add_roles fails it still returns the role; in both cases no record, role
\* or membership changes.
RenameAddFailuresNonFatal ==
    [][\A p \in Slots :
          (/\ procs[p].pc \in {"es_rename", "es_add"}
           /\ IssuedCall(p) # None
           /\ ~The(IssuedCall(p)).ok)
          => /\ store' = store
             /\ roles' = roles
             /\ held' = held
             /\ IF procs[p].pc = "es_rename" /\ The(procs[p].rid) \notin held[procs[p].m]
                THEN procs'[p].pc = "es_add" /\ procs'[p].rid = procs[p].rid
                ELSE SyncReturnedLabel(p, procs[p].rid)]_vars

RenameAddFailuresWitness ==
    /\ procs[1].pc = "ret"
    /\ procs[1].op = "join"
    /\ procs[1].result # None
    /\ store = procs[1].store0
    /\ \E i \in 1..(Len(procs[1].calls) - 1) :
          /\ procs[1].calls[i].call = "rename"
          /\ ~procs[1].calls[i].ok
          /\ procs[1].calls[i + 1].call = "add"

\* the names of the guild's roles other than rid
OtherNames(rid) == {roles[r] : r \in DOMAIN roles \ {rid}}

\* an on_member_join that has run to its end for a member with a live sync
\* role, no remote call having failed
JoinSettled(p) ==
    /\ procs[p].pc = "ret"
    /\ procs[p].op = "join"
    /\ procs[p].result # None
    /\ The(procs[p].result) \in DOMAIN roles
    /\ \A c \in CallsOf(p) : c.ok

\* the sync roles a sweep that met no failure has passed over: live roles of
\* members who are in the guild
SweepSettled ==
    IF sweep.pc = "ret" /\ sweep.failed = {}
    THEN {x \in [m : Members, rid : DOMAIN roles] :
            /\ Key(x.m) \in DOMAIN sweep.data
            /\ SyncId(normalize_info(sweep.data[Key(x.m)])) = Some(x.rid)
            /\ x.m \in present}
    ELSE {}

\* The statement as written: the role's name is the member's display name.
SyncLabelConvergesAsStated ==
    /\ \A p \in Slots :
          JoinSettled(p) => roles[The(procs[p].result)] = DesiredName(procs[p].m)
    /\ \A x \in SweepSettled : roles[x.rid] = DesiredName(x.m)

\* C26: when an _ensure_sync_role call for a member has ended with no remote
\* failure and nothing else running, the name of the member's live sync role
\* is the member's display name, or, when another role of the guild has that
\* name, the display name followed by the first suffix " (k)", k >= 2, that
\* no other role has; when a sweep of the guild has ended so, the name is the
\* display name or the display name followed by a suffix " (k)".
SyncLabelConverges ==
    /\ \A p \in Slots :
          JoinSettled(p) =>
             roles[The(procs[p].result)] =
                unique_role_name(DesiredName(procs[p].m),
                                 OtherNames(The(procs[p].result)), None).name
    /\ \A x \in SweepSettled : NameFits(roles[x.rid], DesiredName(x.m))

SyncLabelConvergesWitness ==
    /\ JoinSettled(1)
    /\ \E c \in CallsOf(1) : c.call = "rename" /\ c.ok
    /\ roles[The(procs[1].result)] # DesiredName(procs[1].m)
    /\ DesiredName(procs[1].m) \in OtherNames(The(procs[1].result))

\* C27: within one sweep with nothing else running, after each successful
\* rename that changes the role's name the sweep's set of names in use no
\* longer holds the old name and holds the new one.
SweepThreadsNames ==
    [][(/\ sweep.pc = "sw_rename"
        /\ sweep'.updated = sweep.updated + 1
        /\ roles'[The(sweep.rid)] # roles[The(sweep.rid)])
       => /\ roles[The(sweep.rid)] \notin sweep'.existing
          /\ roles'[The(sweep.rid)] \in sweep'.existing]_vars

\* the points at which an invocation waits for Discord or sleeps
RemoteWaits ==
    {"es_create", "es_rename", "es_add", "ec_create", "ec_add", "ec_readd",
     "cl_remove", "rm_remove", "as_start", "as_sleep"}

\* invocation p is not held up: a new one can start, a finished one can
\* end, and one in flight waits for Discord, not for a lock
CanStep(p) ==
    CASE procs[p].pc = "idle" ->
            budget > 0 =>
               /\ ENABLED MemberJoin(p, FALSE)
               /\ ENABLED SetCommand(p, FALSE)
               /\ ENABLED ClearCommand(p, FALSE)
               /\ ENABLED RemoveCommand(p, FALSE)
               /\ ENABLED AdminSyncCommand(p, FALSE)
      [] procs[p].pc = "ret" -> ENABLED Finish(p)
      [] OTHER -> procs[p].pc \in RemoteWaits

RoleIds(cs) == UNION {cs[i].role_id : i \in 1..Len(cs)}

\* C29: when remove or clear has dropped an entry from the member's
\* custom_roles, the member no longer holds the entry's role; an entry whose
\* remove_roles call failed is still in the record.
DroppedOnlyWhenGone ==
    \A p \in Slots :
        (procs[p].pc = "ret" /\ procs[p].op \in {"clear", "remove"})
        => LET k == Key(procs[p].m)
               before == RoleIds(Customs(normalize_info(GetRec(procs[p].store0, k))))
               after == RoleIds(Customs(normalize_info(GetRec(store, k))))
           IN  \A r \in before \ after : r \notin held[procs[p].m]

\* C30: the error userhandle_sync reports when it has ensured no role is an
\* error of one of its own calls, never one remembered by a set command or an
\* on_member_join that ran meanwhile.
ReportedErrorIsOwn ==
    \A p \in Slots :
        (/\ procs[p].pc = "ret"
         /\ procs[p].op = "sync"
         /\ procs[p].out = "none_created")
        => procs[p].result = Some(p)

====
